---- MODULE Spec2Model ----
(***************************************************************************)
(* Model of bzt.engine.Engine (src/bzt/engine.py): the module lifecycle    *)
(* prepare() -> run() -> post_process(), the polling loop, the guarded     *)
(* shutdown and the stopping-reason bookkeeping.                           *)
(*                                                                         *)
(* Every call of a module method (prepare, startup, check, shutdown,       *)
(* post_process) is one step whose outcome (return value or raised error)  *)
(* is chosen nondeterministically.  The interruption flag is set by an     *)
(* asynchronous environment step.                                          *)
(*                                                                         *)
(* The artifact names (create_artifact, existing_artifact), the module     *)
(* registry (__load_module, instantiate_module) and Configuration.load     *)
(* have a specification each: SpecArtifacts, SpecRegistry and              *)
(* SpecConfiguration, over variables the lifecycle leaves alone.           *)
(* SpecLoad is Configuration.load over texts of any kind (__read_file),    *)
(* SpecDump is Configuration.dump with masq_sensitive.                     *)
(***************************************************************************)
EXTENDS Naturals, Integers, Sequences, FiniteSets, TLC

\* ------------------------------------------------------------------ bounds
MaxServices == 2
MaxReporters == 2
MaxPasses == 2

\* ------------------------------------------------------------------ values

\* A module instance: its group and its number within the group.  Number 0 is
\* the placeholder built by Engine.__init__ (Provisioning(), EngineModule()).
Mod(g, n) == [group |-> g, n |-> n]
Provisioning0 == Mod("provisioning", 0)
Aggregator0 == Mod("aggregator", 0)
Modules ==
    {Mod("provisioning", n) : n \in 0..1} \cup {Mod("aggregator", n) : n \in 0..1}
        \cup {Mod("services", n) : n \in 1..MaxServices}
        \cup {Mod("reporting", n) : n \in 1..MaxReporters}

\* Python's None, and the errors (exception instances) of a run: the kind of
\* the exception, and the module and stage method that raised it.
None == [kind |-> "None", mod |-> Aggregator0, stage |-> "-"]
Err(k, m, s) == [kind |-> k, mod |-> m, stage |-> s]
ManualShutdown == Err("ManualShutdown", Aggregator0, "_wait")
MissingProvisioning == Err("Exception", Provisioning0, "__prepare_provisioning")

\* Engine.artifacts_dir before create_artifacts_dir (None).  A path is the
\* sequence of its characters.
NoDir == <<>>

\* Module aliases (numbered in the order of their names), class names found
\* in the settings, the classes they name, and the absence of each.
Aliases == {1, 2, 3}
ClassNames == {"mod.Good", "mod.Other", "mod.NotModule", "mod.Broken"}
NoName == "None"
NoClass == "-"
NoError == [type |-> "None", msg |-> "", alias |-> 0, cls |-> NoName]
NoCall == [op |-> "-", alias |-> 0, ret |-> NoClass, err |-> NoError]

\* Configuration trees.  A value is a scalar, a sequence or a mapping from
\* keys to values; the three kinds have the same fields.
NoKeys == [k \in {} |-> 0]
Scalar(n) == [kind |-> "scalar", val |-> n, map |-> NoKeys]
Sequence(n) == [kind |-> "sequence", val |-> n, map |-> NoKeys]
Mapping(f) == [kind |-> "mapping", val |-> 0, map |-> f]
EmptyTree == Mapping(NoKeys)

\* No file name, no format (None); the formats of Configuration.
NoFile == <<>>

\* A configuration file that starts with the YAML document marker and parses.
YamlText == [lines |-> <<<<"-", "-", "-">>>>, parses |-> TRUE]
NoFormat == "None"
JSON == "JSON"
YAML == "YAML"

VARIABLES
    config,           \* the settings prepare() reads
    services,         \* Engine.services
    reporters,        \* Engine.reporters
    aggregator,       \* Engine.aggregator
    provisioning,     \* Engine.provisioning
    prepared,         \* Engine.prepared
    started,          \* Engine.started
    stopping_reason,  \* Engine.stopping_reason
    interrupted,      \* Engine.interrupted
    pc,               \* position of the control thread
    i,                \* index of the loop the control thread is in
    finished,         \* local of _check_modules_list
    exception,        \* local of _shutdown / post_process
    pending,          \* the exception in flight in run() while finally runs
    raised,           \* what the last entry point raised to its caller
    stage,            \* which entry points the launcher has called
    passes,           \* polling passes begun in _wait
    calls,            \* observed: calls[method][module] = number of invocations
    passResults,      \* observed: check() results of the pass in progress
    shutdownLog,      \* observed: errors logged by the _shutdown() of this run()
    shutdownRuns,     \* observed: number of _shutdown() executions
    reasonAtShutdown, \* observed: stopping_reason when _shutdown() began
    kiSeen,           \* observed: some post_process() raised KeyboardInterrupt
    intrPass          \* observed: the polling pass of this run() during which
                      \* the flag was set, -1 if it was not set during polling

VARIABLES
    artifacts_dir,    \* Engine.artifacts_dir
    artifacts,        \* Engine.__artifacts
    files,            \* the paths that exist in the file system
    returned,         \* observed: what the create_artifact calls returned
    copied            \* observed: destinations existing_artifact wrote to

VARIABLES
    modules,          \* Engine.modules: the classes loaded so far, by alias
    mod_conf,         \* the 'modules' section of Engine.config
    reads,            \* observed: reads of the section by __load_module
    loads,            \* observed: calls of load_class
    logged,           \* observed: the alias list __load_module logged last
    lastCall,         \* observed: the last registry call and its outcome
    succeeded,        \* observed: what the first successful resolution of
                      \* each alias returned
    instantiated,     \* observed: the classes instantiate_module constructed
    ops               \* observed: number of registry calls and section edits

VARIABLES
    inputs,           \* the trees of the configuration files of this run
    texts,            \* the text of each configuration file: its lines, and
                      \* whether the parser of its format accepts it
    notified,         \* observed: the configs the load callback was called for
    detected,         \* observed: the format __read_file found for each config
    loadError,        \* observed: what Configuration.load raised
    session,          \* which load of the run is in progress
    configuration,    \* the Configuration being loaded
    pos,              \* Configuration.load: number of configs merged so far
    results           \* observed: the Configuration after each finished load

VARIABLES
    dump_filename,    \* Configuration.dump_filename
    dumped,           \* the files dump() has written: path -> content
    dumpArgs,         \* observed: the arguments of the last dump() call
    dumpError,        \* observed: what the last dump() call raised
    dumps             \* observed: number of dump() calls

artifactVars == <<artifacts_dir, artifacts, files, returned, copied>>
storeVars ==
    <<inputs, texts, session, configuration, pos, results, notified, detected,
      loadError>>
registryVars ==
    <<modules, mod_conf, reads, loads, logged, lastCall, succeeded,
      instantiated, ops>>
dumpVars == <<dump_filename, dumped, dumpArgs, dumpError, dumps>>
componentVars == <<artifactVars, registryVars, storeVars, dumpVars>>

lifecycleVars ==
    <<config, services, reporters, aggregator, provisioning, prepared, started,
      stopping_reason, interrupted, pc, i, finished, exception, pending, raised,
      stage, passes, calls, passResults, shutdownLog, shutdownRuns,
      reasonAtShutdown, kiSeen, intrPass>>
vars == <<lifecycleVars, componentVars>>

engineVars == <<services, reporters, aggregator, provisioning>>
runObs == <<passResults, shutdownLog, shutdownRuns, reasonAtShutdown, intrPass>>

\* ------------------------------------------------------------------ helpers

Range(s) == {s[k] : k \in DOMAIN s}
In(m, list) == m \in Range(list)

\* EngineModule and Provisioning placeholders have empty stage methods: only
\* instances of configured classes can raise or report completion.
Configured(m) ==
    /\ m.n # 0
    /\ (m.group = "aggregator" => config.aggregator)

Methods == {"prepare", "startup", "shutdown", "post_process"}
Called(meth, m) == [calls EXCEPT ![meth][m] = @ + 1]

\* stopping_reason = exc if not stopping_reason else stopping_reason
SetReason_Overwrite(cur, exc) == exc
SetReason(cur, exc) == IF cur = None THEN exc ELSE cur

\* if not exception: exception = exc
KeepFirst_Last(cur, exc) == exc
KeepFirst(cur, exc) == IF cur = None THEN exc ELSE cur

\* finished |= module.check()
Accumulate_Assign(fin, r) == r
Accumulate(fin, r) == fin \/ r

StartupOrder == services \o <<aggregator>> \o reporters \o <<provisioning>>
CheckOrder_ReportersFirst == <<provisioning, aggregator>> \o reporters \o services
CheckOrder == <<provisioning, aggregator>> \o services \o reporters
ShutdownOrder_ServicesFirst == <<provisioning, aggregator>> \o services \o reporters
ShutdownOrder == <<provisioning, aggregator>> \o reporters \o services

\* Engine.__init__: the fields of a new engine.
EngineNew ==
    /\ services = <<>>
    /\ reporters = <<>>
    /\ aggregator = Aggregator0
    /\ provisioning = Provisioning0
    /\ prepared = <<>>
    /\ started = <<>>
    /\ stopping_reason = None
    /\ interrupted = FALSE
    /\ pc = "idle"
    /\ i = 0
    /\ finished = FALSE
    /\ exception = None
    /\ pending = None
    /\ raised = None
    /\ stage = "configured"
    /\ passes = 0
    /\ calls = [meth \in Methods |-> [m \in Modules |-> 0]]
    /\ passResults = {}
    /\ shutdownLog = <<>>
    /\ shutdownRuns = 0
    /\ reasonAtShutdown = None
    /\ kiSeen = FALSE
    /\ intrPass = -1

\* Engine.__init__: no artifacts directory, no artifact reserved.
ArtifactsNew ==
    /\ artifacts_dir = NoDir
    /\ artifacts = <<>>
    /\ files = {}
    /\ returned = <<>>
    /\ copied = <<>>

\* Engine.__init__: self.modules = {}; the observations of a registry on
\* which nothing was called, with the given 'modules' section.
RegistryNew(conf) ==
    /\ modules = [a \in Aliases |-> NoClass]
    /\ mod_conf = conf
    /\ reads = 0
    /\ loads = 0
    /\ logged = <<>>
    /\ lastCall = NoCall
    /\ succeeded = [a \in Aliases |-> NoClass]
    /\ instantiated = {}
    /\ ops = 0

\* Configuration(): an empty tree; nothing loaded.
StoreNew(trees) ==
    /\ inputs = trees
    /\ texts = [k \in DOMAIN trees |-> YamlText]
    /\ session = 1
    /\ notified = <<>>
    /\ detected = <<>>
    /\ loadError = "None"
    /\ configuration = EmptyTree
    /\ pos = 0
    /\ results = <<>>

\* Configuration.__init__: no dump file; nothing has been dumped.
DumpNew ==
    /\ dump_filename = NoFile
    /\ dumped = NoKeys
    /\ dumpArgs = [filename |-> NoFile, fmt |-> NoFormat]
    /\ dumpError = "None"
    /\ dumps = 0

Init ==
    /\ config \in [aggregator : BOOLEAN, provisioning : BOOLEAN,
                   services : 0..MaxServices, reporting : 0..MaxReporters]
    /\ EngineNew
    /\ ArtifactsNew
    /\ RegistryNew(<<>>)
    /\ StoreNew(<<>>)
    /\ DumpNew

\* ------------------------------------------------------------------ prepare()

\* What a call of method meth on module m can raise.
Raises(m, meth, kinds) ==
    IF Configured(m) THEN {Err(k, m, meth) : k \in kinds} ELSE {}

\* instantiate_module(alias) for the n-th module of a group: __load_module or
\* the constructor may raise.
InstantiateErr(g, n) == Err("Exception", Mod(g, n), "instantiate_module")

\* prepare(): except BaseException: record the stopping reason, re-raise.
PrepareFail_Continue(exc) ==
    /\ stopping_reason' = SetReason(stopping_reason, exc)
    /\ raised' = exc
    /\ pc' = "prepare_reporters_new"
    /\ stage' = stage
    /\ i' = 1
PrepareFail(exc) ==
    /\ stopping_reason' = SetReason(stopping_reason, exc)
    /\ raised' = exc
    /\ pc' = "idle"
    /\ stage' = "prepare_failed"
    /\ i' = 0

\* The launcher calls Engine.prepare().
CallPrepare ==
    /\ pc = "idle"
    /\ stage = "configured"
    /\ pc' = "prepare_aggregator"
    /\ raised' = None
    /\ UNCHANGED <<config, engineVars, prepared, started, stopping_reason,
                   interrupted, i, finished, exception, pending, stage, passes,
                   calls, runObs, kiSeen>>
    /\ UNCHANGED componentVars

\* self.prepared.append(module); module.prepare()
PrepareModule_RecordAfter(m, next, nexti) ==
    /\ calls' = Called("prepare", m)
    /\ \/ /\ pc' = next
          /\ i' = nexti
          /\ prepared' = Append(prepared, m)
          /\ UNCHANGED <<stopping_reason, raised, stage>>
       \/ \E exc \in Raises(m, "prepare", {"Exception"}) :
              PrepareFail(exc) /\ UNCHANGED prepared
PrepareModule(m, next, nexti) ==
    /\ prepared' = Append(prepared, m)
    /\ calls' = Called("prepare", m)
    /\ \/ /\ pc' = next
          /\ i' = nexti
          /\ UNCHANGED <<stopping_reason, raised, stage>>
       \/ \E exc \in Raises(m, "prepare", {"Exception"}) : PrepareFail(exc)

\* __prepare_aggregator
PrepareAggregator ==
    /\ pc = "prepare_aggregator"
    /\ \/ /\ aggregator' = Mod("aggregator", 1)
          /\ PrepareModule(aggregator', "prepare_services_new", 1)
       \/ /\ config.aggregator
          /\ PrepareFail(InstantiateErr("aggregator", 1))
          /\ UNCHANGED <<aggregator, prepared, calls>>
    /\ UNCHANGED <<config, services, reporters, provisioning, started,
                   interrupted, finished, exception, pending, passes, runObs,
                   kiSeen>>
    /\ UNCHANGED componentVars

\* __prepare_services, first loop: instantiate every declared service
PrepareServicesNew_One ==
    /\ pc = "prepare_services_new"
    /\ IF i > config.services \/ i > 1
       THEN /\ pc' = "prepare_services"
            /\ i' = 1
            /\ UNCHANGED <<services, stopping_reason, raised, stage>>
       ELSE \/ /\ services' = Append(services, Mod("services", i))
               /\ i' = i + 1
               /\ UNCHANGED <<pc, stopping_reason, raised, stage>>
            \/ /\ PrepareFail(InstantiateErr("services", i))
               /\ UNCHANGED services
    /\ UNCHANGED <<config, reporters, aggregator, provisioning, prepared,
                   started, interrupted, finished, exception, pending, passes,
                   calls, runObs, kiSeen>>
    /\ UNCHANGED componentVars
PrepareServicesNew ==
    /\ pc = "prepare_services_new"
    /\ IF i > config.services
       THEN /\ pc' = "prepare_services"
            /\ i' = 1
            /\ UNCHANGED <<services, stopping_reason, raised, stage>>
       ELSE \/ /\ services' = Append(services, Mod("services", i))
               /\ i' = i + 1
               /\ UNCHANGED <<pc, stopping_reason, raised, stage>>
            \/ /\ PrepareFail(InstantiateErr("services", i))
               /\ UNCHANGED services
    /\ UNCHANGED <<config, reporters, aggregator, provisioning, prepared,
                   started, interrupted, finished, exception, pending, passes,
                   calls, runObs, kiSeen>>
    /\ UNCHANGED componentVars

\* __prepare_services, second loop: prepare the instantiated services
PrepareServices ==
    /\ pc = "prepare_services"
    /\ IF i > Len(services)
       THEN /\ pc' = "prepare_provisioning"
            /\ i' = 0
            /\ UNCHANGED <<prepared, calls, stopping_reason, raised, stage>>
       ELSE PrepareModule(services[i], pc, i + 1)
    /\ UNCHANGED <<config, engineVars, started, interrupted, finished,
                   exception, pending, passes, runObs, kiSeen>>
    /\ UNCHANGED componentVars

\* __prepare_provisioning
PrepareProvisioning ==
    /\ pc = "prepare_provisioning"
    /\ IF ~config.provisioning
       THEN /\ PrepareFail(MissingProvisioning)
            /\ UNCHANGED <<provisioning, prepared, calls>>
       ELSE \/ /\ provisioning' = Mod("provisioning", 1)
               /\ PrepareModule(provisioning', "prepare_reporters_new", 1)
            \/ /\ PrepareFail(InstantiateErr("provisioning", 1))
               /\ UNCHANGED <<provisioning, prepared, calls>>
    /\ UNCHANGED <<config, services, reporters, aggregator, started,
                   interrupted, finished, exception, pending, passes, runObs,
                   kiSeen>>
    /\ UNCHANGED componentVars

\* __prepare_reporters, first loop: instantiate every declared reporter
PrepareReportersNew ==
    /\ pc = "prepare_reporters_new"
    /\ IF i > config.reporting
       THEN /\ pc' = "prepare_reporters"
            /\ i' = 1
            /\ UNCHANGED <<reporters, stopping_reason, raised, stage>>
       ELSE \/ /\ reporters' = Append(reporters, Mod("reporting", i))
               /\ i' = i + 1
               /\ UNCHANGED <<pc, stopping_reason, raised, stage>>
            \/ /\ PrepareFail(InstantiateErr("reporting", i))
               /\ UNCHANGED reporters
    /\ UNCHANGED <<config, services, aggregator, provisioning, prepared,
                   started, interrupted, finished, exception, pending, passes,
                   calls, runObs, kiSeen>>
    /\ UNCHANGED componentVars

\* __prepare_reporters, second loop, then config.dump() and return
PrepareReporters ==
    /\ pc = "prepare_reporters"
    /\ IF i > Len(reporters)
       THEN /\ pc' = "idle"
            /\ i' = 0
            /\ stage' = "prepared"
            /\ UNCHANGED <<prepared, calls, stopping_reason, raised>>
       ELSE PrepareModule(reporters[i], pc, i + 1)
    /\ UNCHANGED <<config, engineVars, started, interrupted, finished,
                   exception, pending, passes, runObs, kiSeen>>
    /\ UNCHANGED componentVars

\* ------------------------------------------------------------------ run()

\* The launcher calls Engine.run().
CallRun ==
    /\ pc = "idle"
    /\ stage = "prepared"
    /\ pc' = "startup"
    /\ i' = 1
    /\ raised' = None
    /\ pending' = None
    /\ UNCHANGED <<config, engineVars, prepared, started, stopping_reason,
                   interrupted, finished, exception, stage, passes, calls,
                   runObs, kiSeen>>
    /\ UNCHANGED componentVars

\* Where control goes when the try block of run() is left, normally
\* (exc = None) or by an exception: the finally clause.
AfterTry_NoFinally(exc) ==
    IF exc.kind \in {"None", "NormalShutdown"} THEN "run_finally" ELSE "run_exit"
AfterTry(exc) == "run_finally"

\* run(): except NormalShutdown: record; except BaseException: record, raise.
RunExcept_ReraiseAll(exc) ==
    /\ stopping_reason' = SetReason(stopping_reason, exc)
    /\ pending' = exc
    /\ pc' = AfterTry(exc)
    /\ i' = 0
RunExcept(exc) ==
    /\ stopping_reason' = SetReason(stopping_reason, exc)
    /\ pending' = IF exc.kind = "NormalShutdown" THEN None ELSE exc
    /\ pc' = AfterTry(exc)
    /\ i' = 0

\* _startup: one iteration of the loop, or config.dump() after it.
StartupStep_RecordAfter ==
    /\ pc = "startup"
    /\ IF i > Len(StartupOrder)
       THEN /\ pc' = "check"
            /\ i' = 1
            /\ finished' = FALSE
            /\ passes' = 1
            /\ UNCHANGED <<started, calls, stopping_reason, pending>>
       ELSE LET m == StartupOrder[i] IN
            /\ calls' = Called("startup", m)
            /\ \/ /\ i' = i + 1
                  /\ started' = Append(started, m)
                  /\ UNCHANGED <<pc, stopping_reason, pending>>
               \/ \E exc \in Raises(m, "startup", {"Exception", "NormalShutdown"}) :
                      /\ RunExcept(exc)
                      /\ UNCHANGED started
            /\ UNCHANGED <<finished, passes>>
    /\ UNCHANGED <<config, engineVars, prepared, interrupted, exception, raised,
                   stage, runObs, kiSeen>>
    /\ UNCHANGED componentVars
StartupStep ==
    /\ pc = "startup"
    /\ IF i > Len(StartupOrder)
       THEN /\ pc' = "check"
            /\ i' = 1
            /\ finished' = FALSE
            /\ passes' = 1
            /\ UNCHANGED <<started, calls, stopping_reason, pending>>
       ELSE LET m == StartupOrder[i] IN
            /\ started' = Append(started, m)
            /\ calls' = Called("startup", m)
            /\ \/ /\ i' = i + 1
                  /\ UNCHANGED <<pc, stopping_reason, pending>>
               \/ \E exc \in Raises(m, "startup", {"Exception", "NormalShutdown"}) :
                      RunExcept(exc)
            /\ UNCHANGED <<finished, passes>>
    /\ UNCHANGED <<config, engineVars, prepared, interrupted, exception, raised,
                   stage, runObs, kiSeen>>
    /\ UNCHANGED componentVars

\* What check() of module m can return.
CheckResults(m) == IF Configured(m) THEN BOOLEAN ELSE {FALSE}

\* _check_modules_list: one iteration of the loop over the modules.
CheckStep ==
    /\ pc = "check"
    /\ i <= Len(CheckOrder)
    /\ LET m == CheckOrder[i] IN
       IF In(m, started)
       THEN /\ \/ \E r \in CheckResults(m) :
                      /\ finished' = Accumulate(finished, r)
                      /\ passResults' = passResults \cup {[mod |-> m, result |-> r]}
                      /\ i' = i + 1
                      /\ UNCHANGED <<pc, stopping_reason, pending>>
               \/ \E exc \in Raises(m, "check", {"Exception", "NormalShutdown"}) :
                      /\ RunExcept(exc)
                      /\ passResults' = {}
                      /\ UNCHANGED finished
       ELSE /\ i' = i + 1
            /\ UNCHANGED <<pc, stopping_reason, pending, finished, passResults>>
    /\ UNCHANGED <<config, engineVars, prepared, started, interrupted, exception,
                   raised, stage, passes, calls, shutdownLog, shutdownRuns,
                   reasonAtShutdown, kiSeen, intrPass>>
    /\ UNCHANGED componentVars

\* _wait: the test of the while loop; on exit config.dump() and return.
WhileTest ==
    /\ pc = "check"
    /\ i > Len(CheckOrder)
    /\ IF finished
       THEN /\ pc' = AfterTry(None)
            /\ pending' = None
       ELSE /\ pc' = "sleep"
            /\ UNCHANGED pending
    /\ i' = 0
    /\ passResults' = {}
    /\ UNCHANGED <<config, engineVars, prepared, started, stopping_reason,
                   interrupted, finished, exception, raised, stage, passes, calls,
                   shutdownLog, shutdownRuns, reasonAtShutdown, kiSeen, intrPass>>
    /\ UNCHANGED componentVars

\* _wait: the body of the while loop: sleep, then read the interruption flag.
SleepStep_NoTest ==
    /\ pc = "sleep"
    /\ passes < MaxPasses
    /\ pc' = "check"
    /\ i' = 1
    /\ finished' = FALSE
    /\ passes' = passes + 1
    /\ UNCHANGED <<stopping_reason, pending>>
    /\ UNCHANGED <<config, engineVars, prepared, started, interrupted, exception,
                   raised, stage, calls, runObs, kiSeen>>
    /\ UNCHANGED componentVars
SleepStep ==
    /\ pc = "sleep"
    /\ IF interrupted
       THEN /\ RunExcept(ManualShutdown)
            /\ UNCHANGED <<finished, passes>>
       ELSE /\ passes < MaxPasses
            /\ pc' = "check"
            /\ i' = 1
            /\ finished' = FALSE
            /\ passes' = passes + 1
            /\ UNCHANGED <<stopping_reason, pending>>
    /\ UNCHANGED <<config, engineVars, prepared, started, interrupted, exception,
                   raised, stage, calls, runObs, kiSeen>>
    /\ UNCHANGED componentVars

\* A collaborator (a signal handler) sets Engine.interrupted at any moment of
\* run(); the flag is read by _wait only.
Interrupt ==
    /\ ~interrupted
    /\ pc \in {"startup", "check", "sleep"}
    /\ interrupted' = TRUE
    /\ intrPass' = IF pc \in {"check", "sleep"} THEN passes ELSE intrPass
    /\ UNCHANGED <<config, engineVars, prepared, started, stopping_reason, pc, i,
                   finished, exception, pending, raised, stage, passes, calls,
                   passResults, shutdownLog, shutdownRuns, reasonAtShutdown,
                   kiSeen>>
    /\ UNCHANGED componentVars

\* ------------------------------------------------------------------ _shutdown()

\* run(): finally: self._shutdown()
ShutdownBegin ==
    /\ pc = "run_finally"
    /\ pc' = "shutdown"
    /\ i' = 1
    /\ exception' = None
    /\ shutdownRuns' = shutdownRuns + 1
    /\ reasonAtShutdown' = stopping_reason
    /\ UNCHANGED <<config, engineVars, prepared, started, stopping_reason,
                   interrupted, finished, pending, raised, stage, passes, calls,
                   passResults, shutdownLog, kiSeen, intrPass>>
    /\ UNCHANGED componentVars

\* The index the loop of _shutdown continues with after module i failed.
AfterShutdownError_Abort(k) == Len(ShutdownOrder) + 1
AfterShutdownError(k) == k + 1

\* _shutdown: one iteration of the loop over the modules.
ShutdownStep ==
    /\ pc = "shutdown"
    /\ i <= Len(ShutdownOrder)
    /\ LET m == ShutdownOrder[i] IN
       IF In(m, started)
       THEN /\ calls' = Called("shutdown", m)
            /\ \/ /\ i' = i + 1
                  /\ UNCHANGED <<stopping_reason, exception, shutdownLog>>
               \/ \E exc \in Raises(m, "shutdown", {"Exception"}) :
                      /\ shutdownLog' = Append(shutdownLog, exc)
                      /\ stopping_reason' = SetReason(stopping_reason, exc)
                      /\ exception' = KeepFirst(exception, exc)
                      /\ i' = AfterShutdownError(i)
       ELSE /\ i' = i + 1
            /\ UNCHANGED <<calls, stopping_reason, exception, shutdownLog>>
    /\ UNCHANGED <<config, engineVars, prepared, started, interrupted, pc,
                   finished, pending, raised, stage, passes, passResults,
                   shutdownRuns, reasonAtShutdown, kiSeen, intrPass>>
    /\ UNCHANGED componentVars

\* _shutdown: config.dump(); if exception: raise exception.  An exception
\* raised by the finally clause replaces the one in flight in run().
ShutdownDone ==
    /\ pc = "shutdown"
    /\ i > Len(ShutdownOrder)
    /\ pending' = IF exception # None THEN exception ELSE pending
    /\ pc' = "run_exit"
    /\ i' = 0
    /\ UNCHANGED <<config, engineVars, prepared, started, stopping_reason,
                   interrupted, finished, exception, raised, stage, passes, calls,
                   runObs, kiSeen>>
    /\ UNCHANGED componentVars

\* run() returns to the launcher or propagates the exception in flight; its
\* locals, and what was observed of this execution, are gone.
RunExit ==
    /\ pc = "run_exit"
    /\ raised' = pending
    /\ pc' = "idle"
    /\ stage' = "ran"
    /\ pending' = None
    /\ exception' = None
    /\ finished' = FALSE
    /\ passes' = 0
    /\ shutdownLog' = <<>>
    /\ reasonAtShutdown' = None
    /\ intrPass' = -1
    /\ UNCHANGED <<config, engineVars, prepared, started, stopping_reason,
                   interrupted, i, calls, passResults, shutdownRuns, kiSeen>>
    /\ UNCHANGED componentVars

\* ------------------------------------------------------------------ post_process()

\* The launcher calls Engine.post_process() (after run(), or after prepare()
\* failed).
CallPostProcess ==
    /\ pc = "idle"
    /\ stage \in {"prepare_failed", "ran"}
    /\ pc' = "post_process"
    /\ i' = 1
    /\ exception' = None
    /\ raised' = None
    /\ UNCHANGED <<config, engineVars, prepared, started, stopping_reason,
                   interrupted, finished, pending, stage, passes, calls, runObs,
                   kiSeen>>
    /\ UNCHANGED componentVars

\* if module in self.prepared
ToPostProcess_Started(m) == In(m, started)
ToPostProcess(m) == In(m, prepared)

\* post_process: one iteration of the loop over the modules; both except
\* clauses record the stopping reason and keep the first exception.
PostProcessStep ==
    /\ pc = "post_process"
    /\ i <= Len(ShutdownOrder)
    /\ LET m == ShutdownOrder[i] IN
       IF ToPostProcess(m)
       THEN /\ calls' = Called("post_process", m)
            /\ \/ UNCHANGED <<stopping_reason, exception, kiSeen>>
               \/ \E exc \in Raises(m, "post_process", {"Exception", "KeyboardInterrupt"}) :
                      /\ stopping_reason' = SetReason(stopping_reason, exc)
                      /\ exception' = KeepFirst(exception, exc)
                      /\ kiSeen' = (kiSeen \/ exc.kind = "KeyboardInterrupt")
       ELSE UNCHANGED <<calls, stopping_reason, exception, kiSeen>>
    /\ i' = i + 1
    /\ UNCHANGED <<config, engineVars, prepared, started, interrupted, pc,
                   finished, pending, raised, stage, passes, runObs>>
    /\ UNCHANGED componentVars

\* post_process: config.dump(); record and raise the exception, if any.
PostProcessDone ==
    /\ pc = "post_process"
    /\ i > Len(ShutdownOrder)
    /\ stopping_reason' =
           IF exception # None THEN SetReason(stopping_reason, exception)
           ELSE stopping_reason
    /\ raised' = exception
    /\ exception' = None
    /\ pc' = "idle"
    /\ i' = 0
    /\ stage' = "done"
    /\ UNCHANGED <<config, engineVars, prepared, started, interrupted, finished,
                   pending, passes, calls, runObs, kiSeen>>
    /\ UNCHANGED componentVars

\* ------------------------------------------------------------------ specification

Next ==
    \/ CallPrepare
    \/ PrepareAggregator
    \/ PrepareServicesNew
    \/ PrepareServices
    \/ PrepareProvisioning
    \/ PrepareReportersNew
    \/ PrepareReporters
    \/ CallRun
    \/ StartupStep
    \/ CheckStep
    \/ WhileTest
    \/ SleepStep
    \/ Interrupt
    \/ ShutdownBegin
    \/ ShutdownStep
    \/ ShutdownDone
    \/ RunExit
    \/ CallPostProcess
    \/ PostProcessStep
    \/ PostProcessDone

Spec == Init /\ [][Next]_vars

\* ------------------------------------------------------------------ properties

\* Position of module m in a list of distinct modules.
Pos(m, list) == CHOOSE k \in DOMAIN list : list[k] = m

\* The error of the module that failed first, in shutdown order, among the
\* failures logged by _shutdown; None when no shutdown() failed.
FirstShutdownError ==
    IF shutdownLog = <<>> THEN None
    ELSE CHOOSE e \in Range(shutdownLog) :
             \A f \in Range(shutdownLog) :
                 Pos(e.mod, ShutdownOrder) <= Pos(f.mod, ShutdownOrder)

\* _shutdown() has been executed and run() is about to return or propagate.
AfterShutdown == pc = "run_exit"

\* C1: run() executes _shutdown() exactly once before it returns or propagates
\* an error, and never before the try block is left.
RunAlwaysShutsDown ==
    /\ shutdownRuns <= 1
    /\ (pc \in {"startup", "check", "sleep", "run_finally"} => shutdownRuns = 0)
    /\ (pc = "run_exit" \/ stage = "ran" => shutdownRuns = 1)

\* C1 witness: run() has propagated an unexpected startup() error after one
\* execution of _shutdown().
RunShutDownAfterStartupError ==
    /\ stage = "ran"
    /\ raised.kind = "Exception"
    /\ raised.stage = "startup"
    /\ shutdownRuns = 1

\* C2: once stopping_reason holds an error, no step replaces or clears it.
StoppingReasonWriteOnce ==
    [][stopping_reason # None => stopping_reason' = stopping_reason]_vars

\* C2 witness: a startup() error was recorded, later a post_process() error
\* occurred and was raised, and the recorded reason is still the startup() one.
LaterErrorsAfterReason ==
    /\ stage = "done"
    /\ stopping_reason.stage = "startup"
    /\ raised.stage = "post_process"

\* C3: when _shutdown() is over, shutdown() has been invoked exactly once on
\* every started module and on no other, whichever of them raised; it is never
\* invoked twice.
ShutdownBestEffort ==
    /\ \A m \in Modules : calls["shutdown"][m] <= 1
    /\ AfterShutdown =>
           \A m \in Modules :
               calls["shutdown"][m] = IF In(m, started) THEN 1 ELSE 0

\* C3 witness: two modules failed in shutdown() and a started module after
\* them in shutdown order was still shut down without error.
ShutdownContinuedAfterFailures ==
    /\ AfterShutdown
    /\ Len(shutdownLog) >= 2
    /\ \E m \in Range(started) :
           /\ \A e \in Range(shutdownLog) :
                  Pos(e.mod, ShutdownOrder) < Pos(m, ShutdownOrder)
           /\ calls["shutdown"][m] = 1

\* C4: after _shutdown() the stopping reason is the one recorded before it, if
\* any, and otherwise the error of the first module, in shutdown order, whose
\* shutdown() failed.
ShutdownFirstErrorWins ==
    AfterShutdown =>
        stopping_reason =
            IF reasonAtShutdown # None THEN reasonAtShutdown
            ELSE FirstShutdownError

\* C4 witness: no stopping reason before _shutdown(), and two modules failed.
ShutdownTwoFailuresNoReason ==
    /\ AfterShutdown
    /\ reasonAtShutdown = None
    /\ Len(shutdownLog) >= 2

\* C5 (as claimed, for run()): the error run() propagates to its caller is the
\* recorded stopping reason, the earliest error of the run.
RunRaisesStoppingReason ==
    (pc = "idle" /\ stage = "ran" /\ raised # None) => raised = stopping_reason

PostProcessInterruptPriority ==
    (stage = "done" /\ kiSeen) => raised.kind = "KeyboardInterrupt"

\* C8: post_process() is invoked at most once per module and only on prepared
\* modules, and when post_process() of the engine is over it has been invoked
\* exactly once on every prepared module.
PostProcessExactlyPrepared ==
    /\ \A m \in Modules :
           /\ calls["post_process"][m] <= 1
           /\ calls["post_process"][m] = 1 => In(m, prepared)
    /\ stage = "done" =>
           \A m \in Modules :
               calls["post_process"][m] = IF In(m, prepared) THEN 1 ELSE 0

\* C8 witness: the second reporter was instantiated but never prepared,
\* post_process() of provisioning failed, and the first reporter was still
\* post-processed while the second was not.
PostProcessSkippedUnprepared ==
    /\ stage = "done"
    /\ Len(reporters) = 2
    /\ ~In(reporters[2], prepared)
    /\ raised.stage = "post_process"
    /\ raised.mod = provisioning
    /\ calls["post_process"][reporters[1]] = 1
    /\ calls["post_process"][reporters[2]] = 0

\* A polling pass is over: _check_modules_list is about to return.
PassOver == pc = "check" /\ i > Len(CheckOrder)
SomeTrue == \E r \in passResults : r.result

\* C9: when a polling pass is over, check() has been invoked on every started
\* module, also after one that returned True, and the loop ends (normally) if
\* and only if some check() of the pass returned True.
PollingOrNoShortCircuit ==
    /\ [](PassOver =>
            /\ {r.mod : r \in passResults} = Range(started)
            /\ finished = SomeTrue)
    /\ [][PassOver /\ pc' # pc =>
            IF SomeTrue THEN pc' = "run_finally" /\ pending' = None
            ELSE pc' = "sleep"]_vars

\* C9 witness: a pass is over in which a module returned True and a module
\* checked after it returned False.
PassTrueThenFalse ==
    /\ PassOver
    /\ \E r, q \in passResults :
           /\ r.result
           /\ ~q.result
           /\ Pos(r.mod, CheckOrder) < Pos(q.mod, CheckOrder)

\* The interruption flag was set while the polling loop was running.
InterruptedInLoop == interrupted /\ intrPass # -1

PrepareSequence ==
    <<Mod("aggregator", 1)>>
        \o [k \in 1..config.services |-> Mod("services", k)]
        \o <<Mod("provisioning", 1)>>
        \o [k \in 1..config.reporting |-> Mod("reporting", k)]
IsPrefix(s, t) == Len(s) <= Len(t) /\ s = SubSeq(t, 1, Len(s))

\* prepare() of the engine has raised.
PrepareFailed == raised # None /\ stage \in {"configured", "prepare_failed"}

StartupErrorPropagates ==
    /\ IsPrefix(started, StartupOrder)
    /\ (/\ AfterShutdown
        /\ reasonAtShutdown.stage = "startup"
        /\ reasonAtShutdown.kind = "Exception")
           => /\ started[Len(started)] = reasonAtShutdown.mod
              /\ \A m \in Range(started) : calls["shutdown"][m] = 1
              /\ pending = reasonAtShutdown

\* ------------------------------------------------------------------ artifacts

\* Bound on the length of Engine.__artifacts.
MaxArtifacts == 3

\* The artifacts directory, the prefixes and suffixes create_artifact is
\* called with (the first prefix is "effective", used by
\* create_artifacts_dir), the suffixes Configuration.dump appends, and the
\* files existing_artifact is called with: outside the directory, inside it,
\* and inside it under a name that is not canonical.
ArtifactsDir == <<"d">>
Sep == "/"
Effective == <<"e">>
Prefixes == {Effective, <<"a">>, <<"a", "-", "1">>}
Suffixes == {<<>>, <<".", "y">>}
DumpSuffixes == {<<".", "y">>, <<".", "j">>}
Sources ==
    {<<"s", Sep, "a">>, <<"s", Sep, "a", "-", "1">>, <<"d", Sep, "a">>,
     <<"d", Sep, ".", Sep, "a">>}

\* os.path.join(dir, name) for a relative name
Join(dir, name) == dir \o <<Sep>> \o name

\* os.path.basename
RECURSIVE Basename(_)
Basename(p) == IF Sep \in Range(p) THEN Basename(Tail(p)) ELSE p

\* os.path.realpath, for paths without links: "." components are dropped.
RECURSIVE Realpath(_)
Realpath(p) ==
    IF p = <<>> THEN <<>>
    ELSE IF Len(p) >= 3 /\ p[1] = Sep /\ p[2] = "." /\ p[3] = Sep
         THEN Realpath(Tail(Tail(p)))
         ELSE <<Head(p)>> \o Realpath(Tail(p))

\* "%s" % n and int(s) for a natural number n in decimal notation
Digits == <<"0", "1", "2", "3", "4", "5", "6", "7", "8", "9">>
RECURSIVE Str(_)
Str(n) ==
    IF n < Len(Digits) THEN <<Digits[n + 1]>>
    ELSE Str(n \div Len(Digits)) \o <<Digits[(n % Len(Digits)) + 1]>>
DigitValue(c) == (CHOOSE k \in DOMAIN Digits : Digits[k] = c) - 1
RECURSIVE IntOf(_)
IntOf(s) ==
    IF Len(s) = 1 THEN DigitValue(s[1])
    ELSE Len(Digits) * IntOf(SubSeq(s, 1, Len(s) - 1)) + DigitValue(s[Len(s)])

\* if diff: diff = "-%s" % (int(diff[1:]) + 1) else: diff = "-1"
NextDiff(diff) ==
    IF diff # <<>> THEN <<"-">> \o Str(IntOf(Tail(diff)) + 1) ELSE <<"-", "1">>

\* os.path.exists(p) or p in self.__artifacts
Taken_DiskOnly(p) == p \in files
Taken(p) == p \in files \/ In(p, artifacts)

\* create_artifact: the while loop and the filename it ends with
RECURSIVE Filename(_, _, _)
Filename(base, diff, suffix) ==
    IF Taken(base \o diff \o suffix)
    THEN Filename(base, NextDiff(diff), suffix)
    ELSE base \o diff \o suffix

\* create_artifact(prefix, suffix)
CreateArtifact(prefix, suffix) ==
    /\ artifacts_dir # NoDir
    /\ Len(artifacts) < MaxArtifacts
    /\ LET filename == Filename(Join(artifacts_dir, prefix), <<>>, suffix) IN
       /\ artifacts' = Append(artifacts, filename)
       /\ returned' = Append(returned, [prefix |-> prefix, suffix |-> suffix,
                                        path |-> filename])
    /\ UNCHANGED <<artifacts_dir, files, copied, lifecycleVars, registryVars,
                   storeVars, dumpVars>>

\* create_artifacts_dir() with an explicitly set directory or not, no merged
\* configuration and no existing artifacts: reserves "effective" and dumps
\* the configuration to effective.yml and effective.json.
CreateArtifactsDir ==
    /\ artifacts_dir = NoDir
    /\ artifacts_dir' = ArtifactsDir
    /\ LET dump == Filename(Join(ArtifactsDir, Effective), <<>>, <<>>) IN
       /\ artifacts' = Append(artifacts, dump)
       /\ returned' = Append(returned, [prefix |-> Effective, suffix |-> <<>>,
                                        path |-> dump])
       /\ files' = files \cup {dump \o ext : ext \in DumpSuffixes}
    /\ UNCHANGED <<copied, lifecycleVars, registryVars,
                   storeVars, dumpVars>>

\* existing_artifact(filename, move)
ExistingArtifact(filename, move) ==
    /\ artifacts_dir # NoDir
    /\ Len(artifacts) < MaxArtifacts
    /\ LET newname == Join(artifacts_dir, Basename(filename)) IN
       /\ artifacts' = Append(artifacts, newname)
       /\ IF Realpath(filename) = Realpath(newname) \/ filename \notin files
          THEN UNCHANGED <<files, copied>>
          ELSE /\ files' = IF move THEN (files \ {filename}) \cup {newname}
                           ELSE files \cup {newname}
               /\ copied' = Append(copied, newname)
    /\ UNCHANGED <<artifacts_dir, returned, lifecycleVars, registryVars,
                   storeVars, dumpVars>>

\* The caller of create_artifact writes the file it reserved.
WriteArtifact(p) ==
    /\ \E r \in Range(returned) : r.path = p
    /\ p \notin files
    /\ files' = files \cup {p}
    /\ UNCHANGED <<artifacts_dir, artifacts, returned, copied, lifecycleVars, registryVars,
                   storeVars, dumpVars>>

\* A new engine; the files that exist when the run begins.
InitArtifacts ==
    /\ config = [aggregator |-> FALSE, provisioning |-> FALSE,
                 services |-> 0, reporting |-> 0]
    /\ EngineNew
    /\ RegistryNew(<<>>)
    /\ StoreNew(<<>>)
    /\ DumpNew
    /\ artifacts_dir = NoDir
    /\ artifacts = <<>>
    /\ files \in SUBSET (Sources \cup {Join(ArtifactsDir, <<"a">>)})
    /\ returned = <<>>
    /\ copied = <<>>

NextArtifacts ==
    \/ CreateArtifactsDir
    \/ \E prefix \in Prefixes, suffix \in Suffixes : CreateArtifact(prefix, suffix)
    \/ \E filename \in Sources, move \in BOOLEAN : ExistingArtifact(filename, move)
    \/ \E p \in Range(artifacts) : WriteArtifact(p)

SpecArtifacts == InitArtifacts /\ [][NextArtifacts]_vars

\* The n-th name of the sequence prefix+suffix, prefix-1+suffix, ... in the
\* artifacts directory, and what makes a name unavailable.
Candidate(prefix, suffix, n) ==
    Join(ArtifactsDir, prefix)
        \o (IF n = 0 THEN <<>> ELSE <<"-">> \o Str(n)) \o suffix
ExistsOrReserved(p) == p \in files \/ \E k \in DOMAIN artifacts : artifacts[k] = p
Occupied == Cardinality(files) + Len(artifacts)
ReturnedFor(prefix, suffix) ==
    LET Same(r) == r.prefix = prefix /\ r.suffix = suffix
    IN  SelectSeq(returned, Same)

\* C14: every create_artifact call returns the first name of the sequence
\* prefix+suffix, prefix-1+suffix, prefix-2+suffix, ... that neither exists
\* on disk nor is reserved, reserves it and creates no file there; no two
\* calls return the same path; and when no name of the sequence of a prefix
\* and suffix is occupied otherwise (as in an empty directory), the k-th call
\* with them returned the k-th name of the sequence.
CreateArtifactFirstFree ==
    /\ [][Len(returned') > Len(returned) =>
            LET r == returned'[Len(returned')] IN
            /\ \E n \in 0..Occupied :
                   /\ r.path = Candidate(r.prefix, r.suffix, n)
                   /\ \A k \in 0..(n - 1) :
                          ExistsOrReserved(Candidate(r.prefix, r.suffix, k))
            /\ ~ExistsOrReserved(r.path)
            /\ artifacts' = Append(artifacts, r.path)
            /\ r.path \notin files']_vars
    /\ [](\A j, k \in DOMAIN returned :
              j # k => returned[j].path # returned[k].path)
    /\ [](\A prefix \in Prefixes, suffix \in Suffixes :
              LET R == ReturnedFor(prefix, suffix) IN
              (\A n \in 0..Occupied :
                   ExistsOrReserved(Candidate(prefix, suffix, n)) =>
                       \E k \in DOMAIN R : R[k].path = Candidate(prefix, suffix, n))
                  => \A k \in DOMAIN R : R[k].path = Candidate(prefix, suffix, k - 1))

\* C14 witness: d/a exists on disk and d/a-1 is reserved, and a call of
\* create_artifact("a", "") returned d/a-2, which does not exist.
CreateArtifactSkippedTwo ==
    /\ Join(ArtifactsDir, <<"a">>) \in files
    /\ \E j, k \in DOMAIN returned :
           /\ j < k
           /\ returned[j].prefix = <<"a", "-", "1">>
           /\ returned[j].path = Join(ArtifactsDir, <<"a", "-", "1">>)
           /\ returned[k].prefix = <<"a">>
           /\ returned[k].suffix = <<>>
           /\ returned[k].path = Join(ArtifactsDir, <<"a", "-", "2">>)
           /\ returned[k].path \notin files

\* C15 (as claimed): no two reserved artifact records are the same path, and
\* existing_artifact never writes to a destination that is reserved already.
ArtifactsUnique ==
    /\ [](\A j, k \in DOMAIN artifacts : j # k => artifacts[j] # artifacts[k])
    /\ [][Len(copied') > Len(copied) =>
            ~In(copied'[Len(copied')], artifacts)]_vars

\* ------------------------------------------------------------------ module registry

\* Bound on the number of registry calls and edits of the 'modules' section.
MaxOps == 3

\* The errors of __load_module and instantiate_module: exception type, message
\* format, and what the message is formatted with.
AliasNotFound(alias) ==
    [type |-> "ValueError",
     msg |-> "Module alias '%s' not found in module settings",
     alias |-> alias, cls |-> NoName]
ClassNameNotFound(alias) ==
    [type |-> "ValueError",
     msg |-> "Class name not found in module settings: %s",
     alias |-> alias, cls |-> NoName]
CannotLoad(alias, clsname) ==
    [type |-> "ValueError", msg |-> "Cannot load module '%s' with class %s",
     alias |-> alias, cls |-> clsname]
AssertionError(alias) ==
    [type |-> "AssertionError", msg |-> "", alias |-> alias, cls |-> NoName]

\* The aliases an error message is formatted with: "..." % alias
MessageAliases(err) == <<err.alias>>

\* The 'modules' section is a dict that keeps the order in which its keys
\* were set: a sequence of entries [alias, class].
Keys(conf) == [k \in DOMAIN conf |-> conf[k].alias]
HasAlias(conf, alias) == \E k \in DOMAIN conf : conf[k].alias = alias
ClassOf(conf, alias) ==
    conf[CHOOSE k \in DOMAIN conf : conf[k].alias = alias].class

\* sorted(mod_conf.keys())
RECURSIVE Insert(_, _)
Insert(x, s) ==
    IF s = <<>> THEN <<x>>
    ELSE IF x <= Head(s) THEN <<x>> \o s
    ELSE <<Head(s)>> \o Insert(x, Tail(s))
Sorted_NoSort(s) == s
RECURSIVE Sorted(_)
Sorted(s) == IF s = <<>> THEN <<>> ELSE Insert(Head(s), Sorted(Tail(s)))

\* load_class(clsname): the class the name refers to; NoClass when the import
\* raises.
LoadClass(clsname) ==
    CASE clsname = "mod.Good" -> "Good"
      [] clsname = "mod.Other" -> "Other"
      [] clsname = "mod.NotModule" -> "NotModule"
      [] OTHER -> NoClass

\* issubclass(cls, EngineModule), isinstance(cls(), EngineModule)
IsSubclass(cls) == cls \in {"Good", "Other"}

\* if alias in self.modules
CacheHit_Never(alias) == FALSE
CacheHit(alias) == modules[alias] # NoClass

\* __load_module(alias): what it returns or raises, and what it leaves in
\* self.modules, in the observations and in the log.
LoadModule(alias) ==
    LET Out(ret, err, cache, nloads, log) ==
            [ret |-> ret, err |-> err, cache |-> cache, reads |-> reads + 1,
             loads |-> loads + nloads, logged |-> log]
    IN
    IF CacheHit(alias)
    THEN [ret |-> modules[alias], err |-> NoError, cache |-> modules,
          reads |-> reads, loads |-> loads, logged |-> logged]
    ELSE IF ~HasAlias(mod_conf, alias)
    THEN Out(NoClass, AliasNotFound(alias), modules, 0, Sorted(Keys(mod_conf)))
    ELSE LET clsname == ClassOf(mod_conf, alias) IN
         IF clsname = NoName
         THEN Out(NoClass, ClassNameNotFound(alias), modules, 0, logged)
         ELSE IF LoadClass(clsname) = NoClass
         THEN Out(NoClass, CannotLoad(alias, clsname), modules, 1, logged)
         ELSE LET stored == [modules EXCEPT ![alias] = LoadClass(clsname)] IN
              IF ~IsSubclass(stored[alias])
              THEN Out(NoClass, CannotLoad(alias, clsname), stored, 1, logged)
              ELSE Out(stored[alias], NoError, stored, 1, logged)

\* What a registry call leaves behind, for the outcome r of __load_module.
Resolved(op, alias, r, err) ==
    /\ modules' = r.cache
    /\ reads' = r.reads
    /\ loads' = r.loads
    /\ logged' = r.logged
    /\ lastCall' = [op |-> op, alias |-> alias, ret |-> r.ret, err |-> err]
    /\ succeeded' =
           IF r.err = NoError /\ succeeded[alias] = NoClass
           THEN [succeeded EXCEPT ![alias] = r.ret]
           ELSE succeeded
    /\ ops' = ops + 1

\* __load_module(alias), the resolution on its own
Resolve(alias) ==
    /\ ops < MaxOps
    /\ LET r == LoadModule(alias) IN Resolved("resolve", alias, r, r.err)
    /\ UNCHANGED <<mod_conf, instantiated, lifecycleVars, artifactVars,
                   storeVars, dumpVars>>

\* instantiate_module(alias): load the class, construct it, assert
InstantiateModule(alias) ==
    /\ ops < MaxOps
    /\ LET r == LoadModule(alias) IN
       IF r.err # NoError
       THEN /\ Resolved("instantiate", alias, r, r.err)
            /\ UNCHANGED instantiated
       ELSE /\ instantiated' = instantiated \cup {r.ret}
            /\ Resolved("instantiate", alias, r,
                        IF IsSubclass(r.ret) THEN NoError
                        ELSE AssertionError(alias))
    /\ UNCHANGED <<mod_conf, lifecycleVars, artifactVars,
                   storeVars, dumpVars>>

\* The settings of an alias are set or replaced in the 'modules' section.
SetModule(alias, clsname) ==
    /\ ops < MaxOps
    /\ mod_conf' =
           IF HasAlias(mod_conf, alias)
           THEN [k \in DOMAIN mod_conf |->
                    IF mod_conf[k].alias = alias
                    THEN [alias |-> alias, class |-> clsname] ELSE mod_conf[k]]
           ELSE Append(mod_conf, [alias |-> alias, class |-> clsname])
    /\ mod_conf' # mod_conf
    /\ ops' = ops + 1
    /\ UNCHANGED <<modules, reads, loads, logged, lastCall, succeeded,
                   instantiated, lifecycleVars, artifactVars,
                   storeVars, dumpVars>>

\* An alias is removed from the 'modules' section.
RemoveModule(alias) ==
    /\ ops < MaxOps
    /\ HasAlias(mod_conf, alias)
    /\ LET Other(e) == e.alias # alias IN mod_conf' = SelectSeq(mod_conf, Other)
    /\ ops' = ops + 1
    /\ UNCHANGED <<modules, reads, loads, logged, lastCall, succeeded,
                   instantiated, lifecycleVars, artifactVars,
                   storeVars, dumpVars>>

\* The 'modules' sections a run can begin with: all but one alias at most.
Sections ==
    {conf \in UNION {[1..n -> [alias : Aliases, class : ClassNames \cup {NoName}]]
                        : n \in 0..(Cardinality(Aliases) - 1)} :
        \A j, k \in DOMAIN conf : j # k => conf[j].alias # conf[k].alias}

InitRegistry ==
    /\ config = [aggregator |-> FALSE, provisioning |-> FALSE,
                 services |-> 0, reporting |-> 0]
    /\ EngineNew
    /\ ArtifactsNew
    /\ \E section \in Sections : RegistryNew(section)
    /\ StoreNew(<<>>)
    /\ DumpNew

NextRegistry ==
    \/ \E alias \in Aliases : Resolve(alias)
    \/ \E alias \in Aliases : InstantiateModule(alias)
    \/ \E alias \in Aliases, clsname \in ClassNames \cup {NoName} :
           SetModule(alias, clsname)
    \/ \E alias \in Aliases : RemoveModule(alias)

SpecRegistry == InitRegistry /\ [][NextRegistry]_vars

\* The step is a call of __load_module (on its own or from
\* instantiate_module) for an alias that was resolved successfully before.
ResolvedAgain ==
    /\ ops' # ops
    /\ mod_conf' = mod_conf
    /\ succeeded[lastCall'.alias] # NoClass

\* C16: every resolution of an alias that was resolved successfully before
\* returns the class the first successful resolution returned, without
\* reading the 'modules' section and without calling load_class, whatever
\* the section holds for the alias by then.
ResolutionCached ==
    [][ResolvedAgain =>
          /\ lastCall'.ret = succeeded[lastCall'.alias]
          /\ lastCall'.err.type # "ValueError"
          /\ reads' = reads
          /\ loads' = loads]_vars

\* C16 witness: an alias was resolved, its entry was then removed from the
\* section or names another class now, and a later resolution returned the
\* class of the first one.
ResolvedAfterEdit ==
    /\ lastCall.op = "resolve"
    /\ lastCall.alias \in Aliases
    /\ succeeded[lastCall.alias] = "Good"
    /\ lastCall.ret = "Good"
    /\ reads = 1
    /\ ops = MaxOps
    /\ \/ ~HasAlias(mod_conf, lastCall.alias)
       \/ ClassOf(mod_conf, lastCall.alias) = "mod.Other"

\* C17 (as claimed): a class that is not an EngineModule is never returned by
\* a resolution and never constructed by instantiate_module: every call for
\* an alias that leads to such a class, the first and every repeated one,
\* fails.
NonConformingNeverResolved ==
    /\ lastCall.ret = NoClass \/ IsSubclass(lastCall.ret)
    /\ \A cls \in instantiated : IsSubclass(cls)
    /\ \A alias \in Aliases :
           (modules[alias] # NoClass /\ ~IsSubclass(modules[alias])) =>
               LoadModule(alias).err.type = "ValueError"

\* The step is a call of __load_module for an alias that is neither in the
\* 'modules' section nor in self.modules.
UnknownAliasCall ==
    /\ ops' # ops
    /\ mod_conf' = mod_conf
    /\ ~HasAlias(mod_conf, lastCall'.alias)
    /\ modules[lastCall'.alias] = NoClass
Ascending(s) == \A j, k \in DOMAIN s : j < k => s[j] < s[k]

MaxScalar == 2

\* The trees the configuration files of a run hold: one top-level key whose
\* value is a scalar, a sequence or a mapping of two keys to scalars and
\* sequences.
Leaves == {Scalar(n) : n \in 1..MaxScalar} \cup {Sequence(1)}
MapsOver(keys, values) ==
    {Mapping(f) : f \in UNION {[D -> values] : D \in SUBSET keys}}
Trees == MapsOver({"a"}, Leaves \cup MapsOver({"x", "y"}, Leaves))

\* BetterDict.merge(src): mapping with mapping is merged key by key,
\* recursing on the keys both hold as mappings; any other pair is replaced by
\* the later value; keys of one side only are kept.
RECURSIVE Merge(_, _)
Merge(dst, src) ==
    Mapping([k \in DOMAIN dst.map \cup DOMAIN src.map |->
                IF k \notin DOMAIN src.map THEN dst.map[k]
                ELSE IF k \notin DOMAIN dst.map THEN src.map[k]
                ELSE IF dst.map[k].kind = "mapping" /\ src.map[k].kind = "mapping"
                     THEN Merge(dst.map[k], src.map[k])
                     ELSE src.map[k]])

\* The loads of a run: the three files one by one; the second and the third
\* into a new Configuration; the first and the result of that.
Sessions == {1, 2, 3}
Configs(s) ==
    CASE s = 1 -> inputs
      [] s = 2 -> Tail(inputs)
      [] OTHER -> <<Head(inputs), results[2]>>

\* str.strip(), on lines of printable characters and blanks
RECURSIVE Strip(_)
Strip(line) ==
    IF line = <<>> THEN line
    ELSE IF Head(line) = " " THEN Strip(Tail(line))
    ELSE IF line[Len(line)] = " " THEN Strip(SubSeq(line, 1, Len(line) - 1))
    ELSE line

\* str.startswith(prefix)
StartsWith(s, prefix) ==
    /\ Len(s) >= Len(prefix)
    /\ SubSeq(s, 1, Len(prefix)) = prefix

\* fds.readline() when n - 1 lines have been read: "" at the end of the file
Readline(lines, n) == IF n <= Len(lines) THEN lines[n] ELSE <<>>

\* __read_file: first_line = "#"; while first_line.startswith("#"):
\* first_line = fds.readline().strip()
RECURSIVE FirstLine_NoStrip(_, _)
FirstLine_NoStrip(lines, n) ==
    LET first_line == Readline(lines, n)
    IN  IF StartsWith(first_line, <<"#">>)
        THEN FirstLine_NoStrip(lines, n + 1)
        ELSE first_line
RECURSIVE FirstLine(_, _)
FirstLine(lines, n) ==
    LET first_line == Strip(Readline(lines, n))
    IN  IF StartsWith(first_line, <<"#">>)
        THEN FirstLine(lines, n + 1)
        ELSE first_line

\* yaml.load(fds) / json.loads(fds.read()) on a file whose document is tree
Parse(text, tree, fmt) ==
    IF text.parses
    THEN [err |-> "None", fmt |-> fmt, config |-> tree]
    ELSE [err |-> "ParseError", fmt |-> fmt, config |-> EmptyTree]

\* __read_file(filename): the error raised or the parsed document, and the
\* format detected
ReadFile(text, tree) ==
    LET first_line == FirstLine(text.lines, 1)
    IN  IF StartsWith(first_line, <<"-", "-", "-">>)
        THEN Parse(text, tree, YAML)
        ELSE IF StartsWith(Strip(first_line), <<"{">>)
        THEN Parse(text, tree, JSON)
        ELSE [err |-> "ValueError", fmt |-> NoFormat, config |-> EmptyTree]

\* The texts of the configs of a load; the result of an earlier load is
\* given as a YAML file.
Texts(s) ==
    CASE s = 1 -> texts
      [] s = 2 -> Tail(texts)
      [] OTHER -> <<Head(texts), YamlText>>

\* Configuration.load: one iteration of the loop over the configs
LoadStep_Assign ==
    /\ loadError = "None"
    /\ pos < Len(Configs(session))
    /\ LET read == ReadFile(Texts(session)[pos + 1], Configs(session)[pos + 1])
       IN  /\ detected' = Append(detected, read.fmt)
           /\ IF read.err = "None"
              THEN /\ configuration' = read.config
                   /\ notified' = Append(notified, pos + 1)
                   /\ pos' = pos + 1
                   /\ UNCHANGED loadError
              ELSE /\ loadError' = read.err
                   /\ UNCHANGED <<configuration, notified, pos>>
    /\ UNCHANGED <<inputs, texts, session, results, lifecycleVars, artifactVars,
                   registryVars, dumpVars>>
LoadStep_TwoOnly ==
    /\ loadError = "None"
    /\ pos < Len(Configs(session))
    /\ LET read == ReadFile(Texts(session)[pos + 1], Configs(session)[pos + 1])
       IN  /\ detected' = Append(detected, read.fmt)
           /\ IF read.err = "None"
              THEN /\ configuration' = IF pos < 2
                                        THEN Merge(configuration, read.config)
                                        ELSE configuration
                   /\ notified' = Append(notified, pos + 1)
                   /\ pos' = pos + 1
                   /\ UNCHANGED loadError
              ELSE /\ loadError' = read.err
                   /\ UNCHANGED <<configuration, notified, pos>>
    /\ UNCHANGED <<inputs, texts, session, results, lifecycleVars, artifactVars,
                   registryVars, dumpVars>>
LoadStep_NotifyFirst ==
    /\ loadError = "None"
    /\ pos < Len(Configs(session))
    /\ notified' = Append(notified, pos + 1)
    /\ LET read == ReadFile(Texts(session)[pos + 1], Configs(session)[pos + 1])
       IN  /\ detected' = Append(detected, read.fmt)
           /\ IF read.err = "None"
              THEN /\ configuration' = Merge(configuration, read.config)
                   /\ pos' = pos + 1
                   /\ UNCHANGED loadError
              ELSE /\ loadError' = read.err
                   /\ UNCHANGED <<configuration, pos>>
    /\ UNCHANGED <<inputs, texts, session, results, lifecycleVars, artifactVars,
                   registryVars, dumpVars>>
LoadStep ==
    /\ loadError = "None"
    /\ pos < Len(Configs(session))
    /\ LET read == ReadFile(Texts(session)[pos + 1], Configs(session)[pos + 1])
       IN  /\ detected' = Append(detected, read.fmt)
           /\ IF read.err = "None"
              THEN /\ configuration' = Merge(configuration, read.config)
                   /\ notified' = Append(notified, pos + 1)
                   /\ pos' = pos + 1
                   /\ UNCHANGED loadError
              ELSE /\ loadError' = read.err
                   /\ UNCHANGED <<configuration, notified, pos>>
    /\ UNCHANGED <<inputs, texts, session, results, lifecycleVars, artifactVars,
                   registryVars, dumpVars>>

\* Configuration.load returns; the next load, if any, is into a new
\* Configuration().
LoadDone ==
    /\ loadError = "None"
    /\ pos = Len(Configs(session))
    /\ Len(results) < session
    /\ results' = Append(results, configuration)
    /\ IF session + 1 \in Sessions
       THEN /\ session' = session + 1
            /\ configuration' = EmptyTree
            /\ pos' = 0
            /\ notified' = <<>>
            /\ detected' = <<>>
       ELSE UNCHANGED <<session, configuration, pos, notified, detected>>
    /\ UNCHANGED <<inputs, texts, loadError, lifecycleVars, artifactVars,
                   registryVars, dumpVars>>

InitConfiguration ==
    /\ config = [aggregator |-> FALSE, provisioning |-> FALSE,
                 services |-> 0, reporting |-> 0]
    /\ EngineNew
    /\ ArtifactsNew
    /\ RegistryNew(<<>>)
    /\ \E trees \in [1..3 -> Trees] : StoreNew(trees)
    /\ DumpNew

NextConfiguration ==
    \/ LoadStep
    \/ LoadDone

SpecConfiguration == InitConfiguration /\ [][NextConfiguration]_vars

\* The deep-merge rule spelled out for trees of two levels: the value the
\* merge of earlier and later holds at a top-level key k.
IsMapping(v) == v.kind = "mapping"
RuleAt(earlier, later, k) ==
    IF k \notin DOMAIN later.map THEN earlier.map[k]
    ELSE IF k \notin DOMAIN earlier.map THEN later.map[k]
    ELSE IF IsMapping(earlier.map[k]) /\ IsMapping(later.map[k])
         THEN Mapping([j \in DOMAIN earlier.map[k].map \cup DOMAIN later.map[k].map |->
                          IF j \in DOMAIN later.map[k].map
                          THEN later.map[k].map[j]
                          ELSE earlier.map[k].map[j]])
         ELSE later.map[k]

\* C19: every config load merges changes the Configuration by the rule: the
\* keys of the result are the keys of either tree; a key of one tree only
\* keeps its value; two mappings under a shared key are merged key by key;
\* every other pair under a shared key is replaced by the later value.
LoadMergesByRule ==
    [][pos' = pos + 1 =>
          LET later == Configs(session)[pos'] IN
          /\ configuration'.kind = "mapping"
          /\ DOMAIN configuration'.map =
                 DOMAIN configuration.map \cup DOMAIN later.map
          /\ \A k \in DOMAIN configuration'.map :
                 configuration'.map[k] = RuleAt(configuration, later, k)]_vars

\* C19 witness: {a: {x: 1}} then {a: {y: 2}} were loaded and the
\* Configuration is {a: {x: 1, y: 2}}.
LoadedTwoMappings ==
    /\ session = 1
    /\ pos = 2
    /\ inputs[1] = Mapping([k \in {"a"} |-> Mapping([j \in {"x"} |-> Scalar(1)])])
    /\ inputs[2] = Mapping([k \in {"a"} |-> Mapping([j \in {"y"} |-> Scalar(2)])])
    /\ configuration =
           Mapping([k \in {"a"} |->
               Mapping([j \in {"x", "y"} |-> IF j = "x" THEN Scalar(1) ELSE Scalar(2)])])

\* The three loads of the run are over.
AllLoaded == Len(results) = 3

\* C20 (as claimed): loading A, B, C one by one gives the same tree as
\* loading A and the result of loading B then C.
MergeAssociative ==
    AllLoaded => results[1] = results[3]

\* A key is a mapping in the first tree and in the third and is something
\* else than a mapping in the second.
MappingScalarMapping ==
    \E k \in DOMAIN inputs[2].map :
        /\ ~IsMapping(inputs[2].map[k])
        /\ k \in DOMAIN inputs[1].map /\ IsMapping(inputs[1].map[k])
        /\ k \in DOMAIN inputs[3].map /\ IsMapping(inputs[3].map[k])

\* C20 (amended): loading A, B, C one by one gives the same tree as loading A
\* and the result of loading B then C, unless some key is a mapping in A and
\* in C and something else in B.
MergeAssociativeButMasked ==
    (AllLoaded /\ ~MappingScalarMapping) => results[1] = results[3]

\* C20 witness: a key is a scalar in A and a mapping in B and in C, the two
\* mappings have different keys, and the two ways of loading gave the same
\* tree, which holds the keys of both.
MergedScalarMappingMapping ==
    /\ AllLoaded
    /\ inputs[1] = Mapping([k \in {"a"} |-> Scalar(1)])
    /\ inputs[2] = Mapping([k \in {"a"} |-> Mapping([j \in {"x"} |-> Scalar(1)])])
    /\ inputs[3] = Mapping([k \in {"a"} |-> Mapping([j \in {"y"} |-> Scalar(2)])])
    /\ results[1] = results[3]
    /\ DOMAIN results[3].map["a"].map = {"x", "y"}

\* The modules prepare() of the engine has constructed, and those of them
\* whose prepare() has not been called yet.
Constructed ==
    Range(services) \cup Range(reporters)
        \cup ({aggregator, provisioning} \ {Aggregator0, Provisioning0})
Unprepared == Constructed \ Range(prepared)
PreparedOf(g) == {m \in Range(prepared) : m.group = g}

\* C24 (as claimed): between the construction of a module and the call of
\* its prepare() no other module is constructed: at most one constructed
\* module is waiting for its prepare().
PreparedRightAfterConstruction ==
    Cardinality(Unprepared) <= 1

\* C24 (amended): the aggregator and provisioning are prepared right after
\* their construction; the services, and likewise the reporters, are all
\* constructed, in declaration order, before prepare() is called on the first
\* of them, and no module of another group is constructed in between.
PreparedAfterGroupConstruction ==
    /\ [](/\ aggregator = Aggregator0 \/ In(aggregator, prepared)
          /\ provisioning = Provisioning0 \/ In(provisioning, prepared)
          /\ \A m, q \in Unprepared : m.group = q.group
          /\ PreparedOf("services") # {} => Len(services) = config.services
          /\ PreparedOf("reporting") # {} => Len(reporters) = config.reporting)
    /\ [][/\ Len(services') > Len(services) =>
                 PreparedOf("services") = {} /\ Unprepared \subseteq Range(services)
          /\ Len(reporters') > Len(reporters) =>
                 PreparedOf("reporting") = {} /\ Unprepared \subseteq Range(reporters)]_vars

\* C24 witness: two services are constructed, prepare() of the first is
\* about to be called and none has been prepared.
TwoServicesConstructedNonePrepared ==
    /\ pc = "prepare_services"
    /\ i = 1
    /\ Len(services) = 2
    /\ Unprepared = Range(services)

\* The position of a module in the order the claim gives for Shutdown and
\* PostProcess: provisioning, aggregator, reporters, services, the last two
\* in declaration order.
StopRank(m) ==
    CASE m.group = "provisioning" -> 0
      [] m.group = "aggregator" -> 1
      [] m.group = "reporting" -> 1 + m.n
      [] OTHER -> 1 + MaxReporters + m.n

\* The modules on which method meth has been invoked so far.
Invoked(meth) == {m \in Modules : calls[meth][m] >= 1}

\* Method meth is invoked in this step, on a module that comes after every
\* module it was invoked on before, and no module of set due that comes
\* earlier in the order has been passed over.
InvokedInStopOrder(meth, due) ==
    \A m \in Modules :
        calls'[meth][m] > calls[meth][m] =>
            /\ \A q \in Invoked(meth) : StopRank(q) < StopRank(m)
            /\ \A q \in due : StopRank(q) < StopRank(m) => q \in Invoked(meth)

\* C25: shutdown() and post_process() are invoked in the same fixed order:
\* provisioning, then the aggregator, then the reporters in declaration
\* order, then the services in declaration order; no service is reached
\* before a reporter.
StopOrderFixed ==
    [][/\ InvokedInStopOrder("shutdown", Range(started))
       /\ InvokedInStopOrder("post_process", Range(prepared))]_vars

\* C25 witness: in Shutdown the aggregator and a reporter have been shut
\* down while a started service still waits for its shutdown().
ReporterShutDownBeforeService ==
    /\ pc = "shutdown"
    /\ calls["shutdown"][aggregator] = 1
    /\ \E r \in Range(reporters) : calls["shutdown"][r] = 1
    /\ \E s \in Range(services) : In(s, started) /\ calls["shutdown"][s] = 0

\* The position of a module in the order the claim gives for a polling
\* pass: provisioning, aggregator, services, reporters.
CheckRank(m) ==
    CASE m.group = "provisioning" -> 0
      [] m.group = "aggregator" -> 1
      [] m.group = "services" -> 1 + m.n
      [] OTHER -> 1 + MaxServices + m.n

\* The modules whose check() has returned in the current polling pass.
Checked == {x.mod : x \in passResults}

\* C26: in a polling pass check() is invoked in the order provisioning,
\* aggregator, services, reporters; it is invoked only on modules whose
\* startup() was invoked, and never once Shutdown has begun.
CheckOrderedStartedOnly ==
    [][\A m \in Checked' \ Checked :
           /\ calls["startup"][m] >= 1
           /\ shutdownRuns = 0 /\ shutdownRuns' = 0
           /\ \A q \in Checked : CheckRank(q) < CheckRank(m)
           /\ \A q \in Range(started) : CheckRank(q) < CheckRank(m) => q \in Checked]_vars

\* C26 witness: in a polling pass check() has returned for provisioning, the
\* aggregator and a service, and a reporter is next.
ServiceCheckedBeforeReporter ==
    /\ pc = "check"
    /\ {provisioning, aggregator} \subseteq Checked
    /\ \E s \in Range(services) : s \in Checked
    /\ reporters # <<>>
    /\ Checked \cap Range(reporters) = {}

\* The modules whose startup() was invoked, whether it returned or raised.
StartupInvoked == Invoked("startup")

\* C27: a module is recorded as started before its startup() is called:
\* shutdown() is invoked at most once per module and only on modules whose
\* startup() was invoked; when the guarded Shutdown is over it has been
\* invoked on every module whose startup() was invoked, the one whose
\* startup() raised included.
ShutdownCoversFailedStartup ==
    /\ Range(started) = StartupInvoked
    /\ \A m \in Modules :
           /\ calls["shutdown"][m] <= 1
           /\ calls["shutdown"][m] = 1 => m \in StartupInvoked
    /\ AfterShutdown =>
           /\ Invoked("shutdown") = StartupInvoked
           /\ (reasonAtShutdown # None /\ reasonAtShutdown.stage = "startup") =>
                  calls["shutdown"][reasonAtShutdown.mod] = 1

\* C27 witness: startup() of the aggregator raised after a service had
\* started and before provisioning was reached; after Shutdown the service
\* and the aggregator have been shut down, provisioning has not.
FailedStartupShutDown ==
    /\ AfterShutdown
    /\ reasonAtShutdown # None
    /\ reasonAtShutdown.stage = "startup"
    /\ reasonAtShutdown.mod = aggregator
    /\ services # <<>>
    /\ calls["shutdown"][services[1]] = 1
    /\ calls["shutdown"][aggregator] = 1
    /\ calls["startup"][provisioning] = 0
    /\ calls["shutdown"][provisioning] = 0

\* The stopping reason is the error of a module's prepare().
PrepareRaised ==
    /\ stopping_reason # None
    /\ stopping_reason.stage = "prepare"

\* C28: a module is recorded as prepared before its prepare() is called:
\* when prepare() of a module raised and post_process() of the engine is
\* over, post_process() has been invoked on that module and on every module
\* whose prepare() was invoked before, and on no module that was constructed
\* but not reached by the prepare loop.
PostProcessCoversFailedPrepare ==
    /\ Range(prepared) = Invoked("prepare")
    /\ (stage = "done" /\ PrepareRaised) =>
           /\ calls["post_process"][stopping_reason.mod] = 1
           /\ \A m \in Invoked("prepare") : calls["post_process"][m] = 1
           /\ \A m \in Unprepared : calls["post_process"][m] = 0

\* C28 witness: prepare() of the first of two services raised; the later
\* post_process() reached the aggregator and the first service and left out
\* the second service, constructed but never prepared.
FailedPreparePostProcessed ==
    /\ stage = "done"
    /\ PrepareRaised
    /\ Len(services) = 2
    /\ stopping_reason.mod = services[1]
    /\ calls["post_process"][aggregator] = 1
    /\ calls["post_process"][services[1]] = 1
    /\ calls["prepare"][services[2]] = 0
    /\ calls["post_process"][services[2]] = 0

\* ------------------------------------------------- masking and dump
\* Configuration.dump and masq_sensitive, checked under SpecDump.  Key names
\* are sequences of characters; the content of a dumped file is the format
\* it was written in and the document the serializer was given.

MaxDumps == 2

\* '*' * 8
MaskLength == 8
Stars(n) == [kind |-> "string", val |-> n, map |-> NoKeys]

\* A list: its items by position.
List(items) == [kind |-> "list", val |-> 0, map |-> items]

\* str.lower(), on the letters the key names hold in upper case
LowerChar(c) ==
    CASE c = "E" -> "e"
      [] c = "K" -> "k"
      [] c = "N" -> "n"
      [] c = "O" -> "o"
      [] c = "P" -> "p"
      [] c = "T" -> "t"
      [] OTHER -> c
Lower(s) == [k \in DOMAIN s |-> LowerChar(s[k])]

\* str.endswith(suffix)
EndsWith_Contains(s, suffix) ==
    \E n \in 1..(Len(s) - Len(suffix) + 1) :
        SubSeq(s, n, n + Len(suffix) - 1) = suffix
EndsWith(s, suffix) ==
    /\ Len(s) >= Len(suffix)
    /\ SubSeq(s, Len(s) - Len(suffix) + 1, Len(s)) = suffix

\* for suffix in ('password', 'secret', 'token',)
SensitiveSuffixes ==
    {<<"p", "a", "s", "s", "w", "o", "r", "d">>,
     <<"s", "e", "c", "r", "e", "t">>,
     <<"t", "o", "k", "e", "n">>}

\* Python's truth value of a configuration value.
Truthy(v) ==
    CASE v.kind \in {"mapping", "list"} -> DOMAIN v.map # {}
      [] OTHER -> v.val # 0

\* masq_sensitive(value, key, container): the container after the call.  The
\* keys of a mapping are strings, the keys of a list are its indices.
MasqSensitive(value, key, container) ==
    IF /\ container.kind = "mapping"
       /\ Truthy(value)
       /\ LET lowered == Lower(key)
          IN  \E suffix \in SensitiveSuffixes : EndsWith(lowered, suffix)
    THEN [container EXCEPT !.map[key] = Stars(MaskLength)]
    ELSE container

\* BetterDict.traverse(obj, masq_sensitive): the visitor is called on every
\* key of a mapping and every index of a list, then the value found there
\* is traversed.
RECURSIVE Traverse(_)
Traverse(obj) ==
    IF obj.kind \in {"mapping", "list"}
    THEN LET visited == [k \in DOMAIN obj.map |->
                            MasqSensitive(obj.map[k], k, obj).map[k]]
         IN  [obj EXCEPT !.map = [k \in DOMAIN visited |-> Traverse(visited[k])]]
    ELSE obj

\* Key names and file names of the dump checks.
Password == <<"P", "a", "s", "s", "w", "o", "r", "d">>
Passwordless == <<"p", "a", "s", "s", "w", "o", "r", "d", "l", "e", "s", "s">>
MyToken == <<"m", "y", "T", "O", "K", "E", "N">>
Secret == <<"s", "e", "c", "r", "e", "t">>
Name == <<"n", "a", "m", "e">>
Yml == <<".", "y", "m", "l">>
Json == <<".", "j", "s", "o", "n">>
DumpFiles == {<<"d">>}
DumpPaths == {<<"f">>}
Formats == {NoFormat, YAML, JSON, "XML"}

\* The configurations dumped: scalars, nested mappings and a list of
\* mappings under a sensitive and under a neutral key.
Inner == MapsOver({MyToken, Secret}, {Scalar(0), Scalar(1)})
DumpValues ==
    {Scalar(0), Scalar(1)} \cup Inner
        \cup {List(<<Mapping((MyToken :> Scalar(1)))>>)}
DumpTrees ==
    {Mapping((Password :> p) @@ (Passwordless :> Scalar(1)) @@ (Name :> n)) :
         p \in DumpValues, n \in DumpValues}

\* open(filename, "w"): the file holds nothing.
Truncated == [fmt |-> NoFormat, doc |-> EmptyTree]

\* The disk after path holds content.
Put(disk, path, content) ==
    [p \in DOMAIN disk \cup {path} |-> IF p = path THEN content ELSE disk[p]]

\* Configuration.write(fds, fmt) on a file just opened for writing: the
\* outcome (None or the error raised) and what the file holds then.
Write(tree, fmt) ==
    IF fmt \in {JSON, YAML}
    THEN [err |-> "None", content |-> [fmt |-> fmt, doc |-> tree]]
    ELSE [err |-> "ValueError", content |-> Truncated]

\* Configuration.set_dump_file(filename)
SetDumpFile(filename) ==
    /\ filename # dump_filename
    /\ dump_filename' = filename
    /\ UNCHANGED <<dumped, dumpArgs, dumpError, dumps>>
    /\ UNCHANGED <<lifecycleVars, artifactVars, registryVars, storeVars>>

\* Configuration.dump(filename, fmt)
Dump_InPlace(filename, fmt) ==
    LET path == IF filename = NoFile THEN dump_filename ELSE filename
        acopy == Traverse(configuration)
    IN  /\ dumps < MaxDumps
        /\ dumps' = dumps + 1
        /\ dumpArgs' = [filename |-> filename, fmt |-> fmt]
        /\ IF path = NoFile
           THEN /\ dumpError' = "None"
                /\ UNCHANGED <<dumped, configuration>>
           ELSE IF fmt = NoFormat
           THEN /\ dumped' = Put(Put(dumped, path \o Yml, Write(acopy, YAML).content),
                                 path \o Json, Write(acopy, JSON).content)
                /\ dumpError' = "None"
                /\ configuration' = acopy
           ELSE /\ dumped' = Put(dumped, path, Write(acopy, fmt).content)
                /\ dumpError' = Write(acopy, fmt).err
                /\ configuration' = acopy
        /\ UNCHANGED <<dump_filename, inputs, texts, session, pos, results,
                       notified, detected, loadError>>
        /\ UNCHANGED <<lifecycleVars, artifactVars, registryVars>>
Dump(filename, fmt) ==
    LET path == IF filename = NoFile THEN dump_filename ELSE filename
        acopy == Traverse(configuration)
    IN  /\ dumps < MaxDumps
        /\ dumps' = dumps + 1
        /\ dumpArgs' = [filename |-> filename, fmt |-> fmt]
        /\ IF path = NoFile
           THEN /\ dumpError' = "None"
                /\ UNCHANGED dumped
           ELSE IF fmt = NoFormat
           THEN /\ dumped' = Put(Put(dumped, path \o Yml, Write(acopy, YAML).content),
                                 path \o Json, Write(acopy, JSON).content)
                /\ dumpError' = "None"
           ELSE /\ dumped' = Put(dumped, path, Write(acopy, fmt).content)
                /\ dumpError' = Write(acopy, fmt).err
        /\ UNCHANGED <<dump_filename, storeVars>>
        /\ UNCHANGED <<lifecycleVars, artifactVars, registryVars>>

InitDump ==
    /\ config = [aggregator |-> FALSE, provisioning |-> FALSE,
                 services |-> 0, reporting |-> 0]
    /\ EngineNew
    /\ ArtifactsNew
    /\ RegistryNew(<<>>)
    /\ inputs = <<>>
    /\ texts = <<>>
    /\ session = 1
    /\ notified = <<>>
    /\ detected = <<>>
    /\ loadError = "None"
    /\ configuration \in DumpTrees
    /\ pos = 0
    /\ results = <<>>
    /\ DumpNew

NextDump ==
    \/ \E filename \in DumpFiles \cup {NoFile} : SetDumpFile(filename)
    \/ \E filename \in DumpPaths \cup {NoFile}, fmt \in Formats :
           Dump(filename, fmt)

SpecDump == InitDump /\ [][NextDump]_vars

\* The name ends, letter case aside, with the word.
EndsIn(name, word) ==
    \E n \in 0..Len(name) :
        /\ Len(name) - n = Len(word)
        /\ \A k \in 1..Len(word) : LowerChar(name[n + k]) = word[k]
SensitiveName(name) == \E word \in SensitiveSuffixes : EndsIn(name, word)

\* Document d is tree t with exactly the truthy values of sensitive mapping
\* keys replaced by the mask of 8 characters.
RECURSIVE MaskedAs(_, _)
MaskedAs(t, d) ==
    /\ d.kind = t.kind
    /\ CASE t.kind = "mapping" ->
                /\ DOMAIN d.map = DOMAIN t.map
                /\ \A k \in DOMAIN t.map :
                       IF SensitiveName(k) /\ Truthy(t.map[k])
                       THEN d.map[k] = Stars(8)
                       ELSE MaskedAs(t.map[k], d.map[k])
         [] t.kind = "list" ->
                /\ DOMAIN d.map = DOMAIN t.map
                /\ \A k \in DOMAIN t.map : MaskedAs(t.map[k], d.map[k])
         [] OTHER -> d = t

\* C21: masking replaces by the mask of 8 characters exactly the truthy
\* values of mapping keys whose name ends, letter case aside, with password,
\* secret or token; keys that only contain such a word, keys with falsy
\* values, all other values and the structure of the tree are as before.
MaskExactlySensitive ==
    \A p \in DOMAIN dumped :
        dumped[p] # Truncated => MaskedAs(configuration, dumped[p].doc)

\* C21 witness: a dumped document in which the value of Password is masked,
\* that of passwordless is kept, and under the neutral key a truthy myTOKEN
\* is masked next to a falsy secret that is kept.
MaskedDeepAndKept ==
    \E p \in DOMAIN dumped :
        LET t == configuration.map
            d == dumped[p].doc.map
        IN  /\ dumped[p] # Truncated
            /\ t[Password] = Scalar(1) /\ d[Password] = Stars(8)
            /\ d[Passwordless] = Scalar(1)
            /\ t[Name] = Mapping((MyToken :> Scalar(1)) @@ (Secret :> Scalar(0)))
            /\ d[Name] = Mapping((MyToken :> Stars(8)) @@ (Secret :> Scalar(0)))

\* No truthy value of a sensitive key is left unmasked in the document.
RECURSIVE NoSensitiveLeft(_)
NoSensitiveLeft(d) ==
    d.kind \in {"mapping", "list"} =>
        \A k \in DOMAIN d.map :
            /\ (d.kind = "mapping" /\ SensitiveName(k) /\ Truthy(d.map[k])) =>
                   d.map[k] = Stars(8)
            /\ NoSensitiveLeft(d.map[k])

\* The path a dump() call with these arguments writes to.
DumpPath(args) ==
    IF args.filename = NoFile THEN dump_filename ELSE args.filename

\* C22: dump() masks a deep copy only: a dump() call, with an explicit path
\* or the default dump file, in one format or both, leaves the live
\* configuration as it was, every document it writes has all sensitive
\* values masked, and without a path and without a dump file it writes
\* nothing.
DumpMasksCopyOnly ==
    [][dumps' > dumps =>
           LET path == DumpPath(dumpArgs')
               fmt == dumpArgs'.fmt
           IN  /\ configuration' = configuration
               /\ \A p \in DOMAIN dumped' : NoSensitiveLeft(dumped'[p].doc)
               /\ path = NoFile => dumped' = dumped
               /\ (path # NoFile /\ fmt = NoFormat) =>
                      /\ {path \o Yml, path \o Json} \subseteq DOMAIN dumped'
                      /\ dumped'[path \o Yml].fmt = YAML
                      /\ dumped'[path \o Json].fmt = JSON
               /\ (path # NoFile /\ fmt \in {YAML, JSON}) =>
                      /\ path \in DOMAIN dumped'
                      /\ dumped'[path].fmt = fmt]_vars

\* C22 witness: dump() without arguments wrote both formats to the default
\* dump file, masked, and the live configuration still holds the password.
DumpedBothLiveKept ==
    /\ dumpArgs = [filename |-> NoFile, fmt |-> NoFormat]
    /\ dump_filename # NoFile
    /\ {dump_filename \o Yml, dump_filename \o Json} \subseteq DOMAIN dumped
    /\ configuration.map[Password] = Scalar(1)
    /\ dumped[dump_filename \o Yml].doc.map[Password] = Stars(8)
    /\ dumped[dump_filename \o Json].doc.map[Password] = Stars(8)

\* ------------------------------------------------- reading the configs
\* Configuration.load with __read_file, checked under SpecLoad: three
\* configs whose texts are drawn from LoadTexts.

Comment == <<"#", "c">>
IndentedComment == <<" ", "#", "c">>
Marker == <<"-", "-", "-">>
IndentedMarker == <<" ", "-", "-", "-">>
Brace == <<"{">>
IndentedBrace == <<" ", "{">>
Other == <<"x">>
Blank == <<>>

\* Texts the parser of the detected format accepts; texts it rejects (JSON
\* has no comments, so the JSON parser rejects a text with a comment line);
\* texts without a first line that tells the format.
LoadTexts ==
    {[lines |-> l, parses |-> TRUE] :
         l \in {<<Marker>>, <<Comment, Marker>>, <<IndentedComment, Marker>>,
                <<IndentedMarker>>, <<Brace>>, <<IndentedBrace>>,
                <<Other>>, <<Blank, Marker>>}}
        \cup {[lines |-> l, parses |-> FALSE] :
                  l \in {<<Marker>>, <<IndentedMarker>>, <<Brace>>,
                         <<Comment, Brace>>, <<Comment>>, <<>>}}
LoadTrees ==
    {Mapping([k \in {"a"} |-> Scalar(1)]),
     Mapping([k \in {"a"} |-> Mapping([j \in {"x"} |-> Scalar(2)])])}

InitLoad ==
    /\ config = [aggregator |-> FALSE, provisioning |-> FALSE,
                 services |-> 0, reporting |-> 0]
    /\ EngineNew
    /\ ArtifactsNew
    /\ RegistryNew(<<>>)
    /\ DumpNew
    /\ inputs \in [1..3 -> LoadTrees]
    /\ texts \in [1..3 -> LoadTexts]
    /\ session = 1
    /\ configuration = EmptyTree
    /\ pos = 0
    /\ results = <<>>
    /\ notified = <<>>
    /\ detected = <<>>
    /\ loadError = "None"

NextLoad ==
    \/ LoadStep
    \/ LoadDone

SpecLoad == InitLoad /\ [][NextLoad]_vars

\* The line without its leading blanks.
AfterBlanks(line) ==
    IF \A n \in DOMAIN line : line[n] = " "
    THEN <<>>
    ELSE SubSeq(line, CHOOSE n \in DOMAIN line :
                          line[n] # " " /\ \A q \in 1..(n - 1) : line[q] = " ",
                Len(line))
BeginsWith(line, word) ==
    /\ Len(line) >= Len(word)
    /\ \A n \in DOMAIN word : line[n] = word[n]
IsComment(line) == BeginsWith(AfterBlanks(line), <<"#">>)

\* The first line of the text that is not a comment, if there is one.
NonComment(lines) == SelectSeq(lines, LAMBDA l : ~IsComment(l))

\* The format the claim gives: the first non-comment line begins with ---,
\* or its first non-blank character is {, or detection fails.
ClaimedFormat(lines) ==
    LET body == NonComment(lines)
    IN  IF body = <<>> THEN NoFormat
        ELSE IF BeginsWith(body[1], Marker) THEN YAML
        ELSE IF BeginsWith(AfterBlanks(body[1]), Brace) THEN JSON
        ELSE NoFormat

\* The same with blanks before --- allowed, as they are before {.
FormatAfterBlanks(lines) ==
    LET body == NonComment(lines)
    IN  IF body = <<>> THEN NoFormat
        ELSE IF BeginsWith(AfterBlanks(body[1]), Marker) THEN YAML
        ELSE IF BeginsWith(AfterBlanks(body[1]), Brace) THEN JSON
        ELSE NoFormat

\* The config __read_file is reading in this step, and what it found.
Reading == Len(detected') > Len(detected)
ReadText == Texts(session)[pos + 1]
Found == detected'[Len(detected')]

\* C23 (as claimed): the format is chosen by the first non-comment line
\* alone: YAML if the line begins with ---, JSON if its first non-blank
\* character is {; anything else fails with the detection error.
FormatByFirstLine ==
    [][Reading =>
           /\ Found = ClaimedFormat(ReadText.lines)
           /\ Found = NoFormat <=> loadError' = "ValueError"]_vars

\* C23 (amended): the format is chosen by the first non-comment line alone,
\* blanks at its start ignored for both formats: YAML if it then begins
\* with ---, JSON if it then begins with {; anything else, also a text
\* without such a line, fails with the detection error; a text that is
\* detected and parses is merged whatever its format.
FormatByFirstLineStripped ==
    [][Reading =>
           /\ Found = FormatAfterBlanks(ReadText.lines)
           /\ Found = NoFormat <=> loadError' = "ValueError"
           /\ (Found # NoFormat /\ ReadText.parses) =>
                  /\ loadError' = "None"
                  /\ configuration' =
                         Merge(configuration, Configs(session)[pos + 1])]_vars

\* C23 witness: one load has layered a YAML text, a JSON text whose brace
\* follows a blank, and a YAML text whose marker follows a comment line.
LayeredYamlAndJson ==
    /\ session = 1
    /\ pos = 3
    /\ loadError = "None"
    /\ texts[1].lines = <<Marker>>
    /\ texts[2].lines = <<IndentedBrace>>
    /\ texts[3].lines = <<Comment, Marker>>
    /\ detected = <<YAML, JSON, YAML>>

\* The merge of the first n of the trees.
RECURSIVE MergedPrefix(_, _)
MergedPrefix(trees, n) ==
    IF n = 0 THEN EmptyTree
    ELSE Merge(MergedPrefix(trees, n - 1), trees[n])

\* C29: load is not atomic: when reading the k-th config fails, by format
\* detection or in the parser, load raises, the trees of configs 1..k-1 stay
\* merged and nothing of configs k.. is, and the callback has been called
\* for configs 1..k-1 exactly.
LoadFailsPartway ==
    /\ configuration = MergedPrefix(Configs(session), pos)
    /\ notified = [n \in 1..pos |-> n]
    /\ loadError # "None" =>
           /\ pos < Len(Configs(session))
           /\ ReadFile(Texts(session)[pos + 1], Configs(session)[pos + 1]).err
                  = loadError

\* C29 witness: the third config has no line that tells its format; the
\* load raised with the first two configs merged and notified.
ThirdConfigFailed ==
    /\ session = 1
    /\ loadError = "ValueError"
    /\ pos = 2
    /\ notified = <<1, 2>>
    /\ configuration = Merge(inputs[1], inputs[2])
    /\ configuration # EmptyTree

====
